---------------------------- MODULE Spec2Model ----------------------------
(***************************************************************************)
(* The concurrent crawler of index-poké.py (class PokéAPIScraper): a pool  *)
(* of worker threads sharing a Redis sorted set (the pending frontier),    *)
(* two Redis sets (completed, failed), the persisted records, a sequence   *)
(* counter and a statistics block, run by a coordinator (run).             *)
(*                                                                         *)
(* Every Redis command, every section under stats_lock and every read of   *)
(* a shared field is one atomic step; thread-local computation is folded   *)
(* into the step that follows it.  Scores are the code's floats, bit for   *)
(* bit.                                                                    *)
(***************************************************************************)
EXTENDS Integers, Sequences, FiniteSets, TLC

(***************************************************************************)
(* URLs.  A URL string is modelled by the list of its "/"-separated        *)
(* segments; the segment "R" stands for the root URL without its trailing  *)
(* slash, so that root_url = "R/" and "R/films/1" = <<"R","films","1">>.   *)
(***************************************************************************)
\* "X" is a URL of another host, "E" is the empty string
URLs == {"A", "B", "C", "D", "X", "E"}

UrlText(u) ==
    CASE u = "A" -> <<"R", "films", "1">>
      [] u = "B" -> <<"R", "people", "1">>
      [] u = "C" -> <<"R", "species", "1">>
      [] u = "D" -> <<"R", "films", "2">>
      [] u = "X" -> <<"S", "films", "1">>
      [] u = "E" -> <<"">>

\* url.startswith(self.root_url)
StartsWithRoot(s) == Len(s) >= 2 /\ s[1] = "R"

\* url.replace(self.root_url, ""): every occurrence of "R/" is removed
RECURSIVE StripRoot(_)
StripRoot(s) ==
    IF Len(s) <= 1 THEN s
    ELSE IF Head(s) = "R" THEN StripRoot(Tail(s))
         ELSE <<Head(s)>> \o StripRoot(Tail(s))

\* url_parts[0] of url.replace(root_url, "").split("/")
ResourceType(s) == Head(StripRoot(s))

\* type_priorities.get(resource_type, 9)
TypePriority(t) ==
    CASE t = "films" -> 1
      [] t = "people" -> 2
      [] t = "planets" -> 3
      [] t = "starships" -> 4
      [] t = "vehicles" -> 4
      [] t = "species" -> 5
      [] OTHER -> 9

(***************************************************************************)
(* Floating point.  The scores are Python floats (IEEE 754 binary64), and  *)
(* Redis keeps them as the same doubles.  A double x is modelled exactly   *)
(* by the integer x * 2^FractionBits, held as a list of limbs of LimbBits  *)
(* bits, least significant limb first; every score of a crawl is below     *)
(* 2^11 and at least 64, so it is a multiple of 2^-46 and fits.  The       *)
(* arithmetic is written as functions, which take their arguments by       *)
(* value.                                                                  *)
(***************************************************************************)
\* the significand of a binary64 number holds 53 bits
Precision == 53

LimbBits == 12
Limb == 2^LimbBits
FractionBits == 62

\* lists of limbs, also before the carries have been passed upward
Number == Seq(Nat)

\* the limbs after the carries have been passed upward
Carried[n \in Number, carry \in Nat] ==
    IF n = << >> THEN << >>
    ELSE <<(Head(n) + carry) % Limb>> \o Carried[Tail(n), (Head(n) + carry) \div Limb]

\* n * k, for k below 2^19
Times[n \in Number, k \in Nat] == Carried[[i \in 1 .. Len(n) |-> n[i] * k], 0]

\* n + k * 2^FractionBits
PlusWhole[n \in Number, k \in Nat] ==
    Carried[[n EXCEPT ![FractionBits \div LimbBits + 1] = @ + k * 2^(FractionBits % LimbBits)], 0]

\* the number of bits of a small integer
Bits[v \in Nat] == CHOOSE k \in 0 .. 30 : v < 2^k /\ (k = 0 \/ v >= 2^(k - 1))

BitLength[n \in Number] ==
    IF \A i \in 1 .. Len(n) : n[i] = 0 THEN 0
    ELSE LET top == CHOOSE i \in 1 .. Len(n) :
                        n[i] # 0 /\ \A j \in (i + 1) .. Len(n) : n[j] = 0
         IN  LimbBits * (top - 1) + Bits[n[top]]

\* n with its lowest bits replaced: drop of them cleared, and one unit of
\* the kept part added when the cleared part was above the half, or at the
\* half with an odd kept part (ties to even); drop is below 2 * LimbBits
RoundedAt[n \in Number, drop \in Nat] ==
    LET low == n[1] + Limb * n[2]
        rest == low % 2^drop
        up == \/ 2 * rest > 2^drop
              \/ 2 * rest = 2^drop /\ (low \div 2^drop) % 2 = 1
        kept == (low - rest) + (IF up THEN 2^drop ELSE 0)
    IN  Carried[<<kept % Limb, kept \div Limb>> \o SubSeq(n, 3, Len(n)), 0]

\* the result of one float operation: the exact value n rounded to
\* Precision significant bits
RoundToEven[n \in Number] ==
    IF BitLength[n] <= Precision THEN n ELSE RoundedAt[n, BitLength[n] - Precision]

\* the double 0.0
Zero == <<0, 0, 0, 0, 0, 0, 0>>

\* the literal 0.001: the double 0x10624DD2F1A9FC * 2^-62
Thousandth == <<2556, 3866, 3538, 1572, 16, 0, 0>>

\* the whole part of a double: int(x) for x >= 0
Whole[x \in Number] ==
    x[FractionBits \div LimbBits + 2] * 2^(LimbBits - (FractionBits % LimbBits))
        + x[FractionBits \div LimbBits + 1] \div 2^(FractionBits % LimbBits)

\* x < y on doubles
Less(x, y) ==
    \E i \in 1 .. Len(x) : x[i] < y[i] /\ \A j \in (i + 1) .. Len(x) : x[j] = y[j]

LessEq(x, y) == x = y \/ Less(x, y)

\* x is a double: rounding leaves it as it is
IsDouble(x) ==
    /\ Len(x) = Len(Zero)
    /\ \A i \in 1 .. Len(x) : x[i] \in 0 .. Limb - 1
    /\ RoundToEven[x] = x

\* one unit of Milli is 0.001
ScoreScale == 1000

\* the double in thousandths, rounded to the nearest integer
Milli[x \in Number] ==
    Whole[Carried[[Times[x, ScoreScale] EXCEPT
                      ![(FractionBits - 1) \div LimbBits + 1] = @ + 2^((FractionBits - 1) % LimbBits)], 0]]

\* score = (type_priority * 100) + (depth * 10) + (counter * 0.001): the
\* product is one float operation and the sum with the integer is another
CalculateUrlScore(u, depth, counter) ==
    RoundToEven[PlusWhole[RoundToEven[Times[Thousandth, counter]],
                          (TypePriority(ResourceType(UrlText(u))) * 100) + (depth * 10)]]

\* current_depth = int((score % 100) // 10)
CurrentDepth(score) == (Whole[score] % 100) \div 10

max_retries == 3
no_new_urls_timeout == 30

\* the size of the worker pool (config["max_workers"])
max_workers == 2
Workers == 1 .. max_workers

(***************************************************************************)
(* The environment of one run: the seed list, what each URL's payload      *)
(* links to, and what a request for a URL can answer.                      *)
(*   "full"       2xx, a non-empty JSON payload                            *)
(*   "empty"      2xx, an empty JSON payload ({} or [])                    *)
(*   "http_error" a requests.exceptions.RequestException (404, 503, ...)   *)
(*   "exception"  any other exception raised inside the try block          *)
(*                                                                         *)
(*   E2E        seed A; A links to B and C; every request succeeds         *)
(*   NotFound   seed A; every request for A is answered 404                *)
(*   Discovery  seeds A and B; both link to C; every request succeeds; the *)
(*              run gets no SIGINT or SIGTERM                              *)
(*   Flaky      as Discovery, but a request for C may fail or succeed      *)
(*   Odd        seed A; A links to itself; a request for A may succeed,    *)
(*              return an empty payload or raise                           *)
(*   Upward     seed C (species); C links to A (films); every request      *)
(*              succeeds                                                   *)
(*   Rerun      seed B; B links to C; every request succeeds; an earlier   *)
(*              run with the same seed was interrupted after it completed  *)
(*              B, and Redis still holds what it left                      *)
(*   Foreign    seed A; the link field "films" of A's payload holds a URL  *)
(*              of another host, an empty string and B; C is the value of  *)
(*              its field "homeworld" (a string, in no link field) and an  *)
(*              entry of its list "related"; every request succeeds        *)
(*   Faulty     seed A; A links to B; a request for A may fail; any Redis  *)
(*              command of a worker may fail, and a link field of B's      *)
(*              payload holds an entry that is no string                   *)
(***************************************************************************)
Envs == {"E2E", "NotFound", "Discovery", "Flaky", "Odd", "Upward", "Rerun", "Foreign"}

\* the environment in which Redis and the payloads misbehave
FaultEnvs == {"Faulty"}

Seeds(e) ==
    CASE e = "E2E" -> <<"A">>
      [] e = "NotFound" -> <<"A">>
      [] e = "Discovery" -> <<"A", "B">>
      [] e = "Flaky" -> <<"A", "B">>
      [] e = "Odd" -> <<"A">>
      [] e = "Upward" -> <<"C">>
      [] e = "Rerun" -> <<"B">>
      [] e = "Faulty" -> <<"A">>
      [] e = "Foreign" -> <<"A">>

\* url_fields of extract_urls_from_response
url_fields == {"characters", "films", "people", "pilots", "planets", "residents",
               "species", "starships", "vehicles"}

\* the payload of A in the environment Foreign: its fields in the order of
\* url_fields, each with whether its value is a list and the URLs it holds
ForeignPayload ==
    << [field |-> "films", is_list |-> TRUE, values |-> <<"X", "E", "B">>],
       [field |-> "homeworld", is_list |-> FALSE, values |-> <<"C">>],
       [field |-> "related", is_list |-> TRUE, values |-> <<"C">>] >>

\* for field in url_fields: if field in data: if isinstance(data[field], list):
\* urls.extend(data[field])
RECURSIVE FieldLinks(_)
FieldLinks(payload) ==
    IF payload = << >> THEN << >>
    ELSE (IF Head(payload).field \in url_fields /\ Head(payload).is_list
          THEN Head(payload).values
          ELSE << >>) \o FieldLinks(Tail(payload))

Links(e, u) ==
    CASE e = "E2E" /\ u = "A" -> <<"B", "C">>
      [] e = "Discovery" /\ u \in {"A", "B"} -> <<"C">>
      [] e = "Flaky" /\ u \in {"A", "B"} -> <<"C">>
      [] e = "Odd" /\ u = "A" -> <<"A">>
      [] e = "Upward" /\ u = "C" -> <<"A">>
      [] e = "Rerun" /\ u = "B" -> <<"C">>
      [] e = "Faulty" /\ u = "A" -> <<"B">>
      [] e = "Foreign" /\ u = "A" -> FieldLinks(ForeignPayload)
      [] OTHER -> << >>

Answers(e, u) ==
    CASE e = "NotFound" -> {"http_error"}
      [] e = "Flaky" /\ u = "C" -> {"full", "http_error"}
      [] e = "Odd" /\ u = "A" -> {"full", "empty", "exception"}
      [] e = "Faulty" /\ u = "A" -> {"full", "http_error"}
      [] OTHER -> {"full"}

\* whether the process may get SIGINT or SIGTERM during the run
Signals(e) == e \notin {"Discovery", "Flaky"}

\* whether the Redis commands of this run may raise (redis.exceptions.RedisError)
StoreFaults(e) == e = "Faulty"

\* what self.redis_client.set(key, ...) of save_response_data can do: TRUE when
\* the record is written, FALSE when the command raises
WriteOutcomes(e) == IF StoreFaults(e) THEN {TRUE, FALSE} ELSE {TRUE}

\* whether a link field of the URL's payload holds an entry without
\* startswith (a number): extract_urls_from_response raises AttributeError
BadLinks(e, u) == e = "Faulty" /\ u = "B"

\* zscore(PENDING_QUEUE, url) is None: the URL is not in the sorted set
NoScore == << >>

VARIABLES
    env,                \* the environment of this run
    pending,            \* Redis sorted set poké:pending: URL -> score, NoScore when absent
    completed,          \* Redis set poké:completed
    failed,             \* Redis set poké:failed
    data,               \* Redis keys poké:data:*: the set of [key, url] records
    url_counter,        \* self.url_counter
    urls_scraped,       \* stats["urls_scraped"]
    urls_failed,        \* stats["urls_failed"]
    errors,             \* stats["errors"]
    since_new_url,      \* time.time() - stats["last_new_url_time"], in seconds
    stop_event,         \* self.stop_event
    interrupted,        \* history: a SIGINT/SIGTERM was delivered
    answers,            \* history: what the requests of the scrape_url call a worker
                        \* is in were answered so far, in order
    exc,                \* worker local: the exception e the except branch of
                        \* worker_thread caught, "none" outside that branch
    events,             \* history, per worker: the sleeps and the requests of its
                        \* scrape_url call, in order, until the call's result is used
    inserted,           \* history, per worker: a ZADD of its add_new_urls call added
                        \* a member that was not in the frontier
    fetched,            \* history, per URL: how many scrape_url calls were made for it
    last_pop,           \* history: the score the last pop returned, 0.0 when none has
                        \* or when a URL was enqueued below that score since
    cpc,                \* where run() is
    pc,                 \* where each worker is
    url,                \* worker local: url
    score,              \* worker local: score of the popped url
    new_count,          \* worker local: new_count, what add_new_urls returned
    attempt,            \* scrape_url local: attempt
    queue,              \* add_new_urls local: the URLs of the list not yet looked at
    depth,              \* add_new_urls parameter: depth
    new_urls_count,     \* add_new_urls local: new_urls_count
    is_completed,       \* add_new_urls local: is_completed
    new_score           \* add_new_urls local: score

store == <<pending, completed, failed, data>>
stats == <<urls_scraped, urls_failed, errors>>
addLocals == <<queue, depth, new_urls_count, is_completed, new_score>>
locals == <<url, score, new_count, attempt, queue, depth, new_urls_count, is_completed, new_score>>
vars == <<env, events, exc, fetched, inserted, last_pop, pending, completed, failed, data, url_counter, urls_scraped,
          urls_failed, errors, since_new_url, stop_event, interrupted, answers,
          cpc, pc, url, score, new_count, attempt, queue, depth, new_urls_count, is_completed,
          new_score>>

EmptyQueue == [u \in URLs |-> NoScore]
Pending == {u \in URLs : pending[u] # NoScore}

\* the key of save_response_data: DATA_PREFIX + url.replace(root_url, "").replace("/", ":")
DataKey(u) == StripRoot(UrlText(u))

\* mutant: every value of the link fields is returned
ExtractUrls_NoFilter(links) == links

\* return [url for url in urls if url and url.startswith(self.root_url)]
ExtractUrls(links) ==
    SelectSeq(links, LAMBDA v : UrlText(v) # <<"">> /\ StartsWithRoot(UrlText(v)))

(***************************************************************************)
(* Construction (__init__).  The Redis server outlives the process, so it  *)
(* may hold what an earlier run left behind.                               *)
(***************************************************************************)
Constructed(E) ==
    /\ env \in E
    /\ LET leftover == env = "Rerun" IN
          /\ pending = IF leftover
                       THEN [EmptyQueue EXCEPT !["C"] = CalculateUrlScore("C", 1, 2)]
                       ELSE EmptyQueue
          /\ completed = IF leftover THEN {"B"} ELSE {}
          /\ failed = {}
          /\ data = IF leftover THEN {[key |-> DataKey("B"), url |-> "B"]} ELSE {}
    /\ url_counter = 0
    /\ urls_scraped = 0
    /\ urls_failed = 0
    /\ errors = << >>
    /\ since_new_url = 0
    /\ stop_event = FALSE
    /\ interrupted = FALSE
    /\ last_pop = Zero
    /\ exc = [w \in Workers |-> "none"]
    /\ fetched = [u \in URLs |-> 0]
    /\ inserted = [w \in Workers |-> FALSE]
    /\ events = [w \in Workers |-> << >>]
    /\ answers = [w \in Workers |-> << >>]
    /\ cpc = "start"
    /\ pc = [w \in Workers |-> "new"]
    /\ url = [w \in Workers |-> "A"]
    /\ score = [w \in Workers |-> Zero]
    /\ new_count = [w \in Workers |-> 0]
    /\ attempt = [w \in Workers |-> 0]
    /\ queue = [w \in Workers |-> << >>]
    /\ depth = [w \in Workers |-> 0]
    /\ new_urls_count = [w \in Workers |-> 0]
    /\ is_completed = [w \in Workers |-> FALSE]
    /\ new_score = [w \in Workers |-> Zero]

Init == Constructed(Envs)


(***************************************************************************)
(* run(), first part: setup_signal_handlers, initialize_redis(seed_urls),  *)
(* then the workers are submitted to the pool.                             *)
(***************************************************************************)
\* the seed loop of initialize_redis: one score and one ZADD per list entry
RECURSIVE SeedQueue(_, _, _)
SeedQueue(seeds, q, counter) ==
    IF seeds = << >> THEN [queue |-> q, counter |-> counter]
    ELSE SeedQueue(Tail(seeds),
                   [q EXCEPT ![Head(seeds)] = CalculateUrlScore(Head(seeds), 0, counter + 1)],
                   counter + 1)

\* mutant: the deletion of the old records is commented out, as the comment
\* on that loop suggests ("comment out to preserve cache")
InitializeRedis_KeepData ==
    LET seeded == SeedQueue(Seeds(env), EmptyQueue, url_counter) IN
    /\ pending' = seeded.queue
    /\ url_counter' = seeded.counter
    /\ completed' = {}
    /\ failed' = {}
    /\ data' = data

InitializeRedis ==
    LET seeded == SeedQueue(Seeds(env), EmptyQueue, url_counter) IN
    /\ pending' = seeded.queue
    /\ url_counter' = seeded.counter
    /\ completed' = {}
    /\ failed' = {}
    /\ data' = {}

RunStart ==
    /\ cpc = "start"
    /\ InitializeRedis
    /\ pc' = [w \in Workers |-> "loop"]
    /\ cpc' = "poll"
    /\ UNCHANGED <<env, fetched, inserted, events, exc, last_pop, stats, since_new_url, stop_event, interrupted, answers, locals>>

\* the signal handler installed by setup_signal_handlers
Signal ==
    /\ Signals(env)
    /\ cpc \in {"poll", "join"}
    /\ ~interrupted
    /\ stop_event' = TRUE
    /\ interrupted' = TRUE
    /\ UNCHANGED <<env, fetched, inserted, events, exc, last_pop, store, url_counter, stats, since_new_url, answers, cpc, pc, locals>>

AllDone == \A w \in Workers : pc[w] = "done"

\* the polling loop of run(): left when the stop flag is set or every future is done
\* run() with stop_event.clear() in place of stop_event.set() after the loop
CoordPoll_ClearsStop ==
    /\ cpc = "poll"
    /\ stop_event \/ AllDone
    /\ stop_event' = FALSE
    /\ cpc' = "join"
    /\ UNCHANGED <<env, fetched, inserted, events, exc, last_pop, store, url_counter, stats, since_new_url, interrupted, answers, pc, locals>>

CoordPoll ==
    /\ cpc = "poll"
    /\ stop_event \/ AllDone
    /\ stop_event' = TRUE
    /\ cpc' = "join"
    /\ UNCHANGED <<env, fetched, inserted, events, exc, last_pop, store, url_counter, stats, since_new_url, interrupted, answers, pc, locals>>

\* run() waits for the workers, then print_statistics
\* run() without the wait for the workers: statistics while workers still run
CoordJoin_NoWait ==
    /\ cpc = "join"
    /\ cpc' = "done"
    /\ UNCHANGED <<env, fetched, inserted, events, exc, last_pop, store, url_counter, stats, since_new_url, stop_event,
                   interrupted, answers, pc, locals>>

CoordJoin ==
    /\ cpc = "join"
    /\ AllDone
    /\ cpc' = "done"
    /\ UNCHANGED <<env, fetched, inserted, events, exc, last_pop, store, url_counter, stats, since_new_url, stop_event,
                   interrupted, answers, pc, locals>>

\* as_completed(futures, timeout=30): 30 seconds have passed and a future is
\* not done, so the iterator raises TimeoutError; run() has no handler for it
\* and the exception leaves the "with ThreadPoolExecutor" block
CoordJoinTimeout ==
    /\ cpc = "join"
    /\ ~AllDone
    /\ cpc' = "unwind"
    /\ UNCHANGED <<env, fetched, inserted, events, exc, last_pop, store, url_counter, stats, since_new_url, stop_event,
                   interrupted, answers, pc, locals>>

\* ThreadPoolExecutor.__exit__ is shutdown(wait=True): it joins every worker
\* thread, then the exception leaves run() before print_statistics
CoordUnwind ==
    /\ cpc = "unwind"
    /\ AllDone
    /\ cpc' = "raised"
    /\ UNCHANGED <<env, fetched, inserted, events, exc, last_pop, store, url_counter, stats, since_new_url, stop_event,
                   interrupted, answers, pc, locals>>

(***************************************************************************)
(* Time.  The program reads the clock only to compare the time since       *)
(* last_new_url_time with no_new_urls_timeout, so the clock is sampled at  *)
(* the three cases of that test: below the limit, at the limit, past it.   *)
(***************************************************************************)
Tick ==
    /\ cpc \notin {"done", "raised"}
    /\ since_new_url <= no_new_urls_timeout
    /\ since_new_url' = IF since_new_url < no_new_urls_timeout
                        THEN no_new_urls_timeout
                        ELSE since_new_url + 1
    /\ UNCHANGED <<env, fetched, inserted, events, exc, last_pop, store, url_counter, stats, stop_event, interrupted, answers, cpc, pc, locals>>

(***************************************************************************)
(* worker_thread                                                           *)
(***************************************************************************)
\* mutant: the loop is "while True", the stop flag is not read
LoopCheck_IgnoresStop(w) ==
    /\ pc[w] = "loop"
    /\ pc' = [pc EXCEPT ![w] = "pop"]
    /\ UNCHANGED <<env, fetched, inserted, events, exc, last_pop, store, url_counter, stats, since_new_url, stop_event,
                   interrupted, answers, cpc, locals>>

\* while not self.stop_event.is_set()
LoopCheck(w) ==
    /\ pc[w] = "loop"
    /\ pc' = [pc EXCEPT ![w] = IF stop_event THEN "done" ELSE "pop"]
    /\ UNCHANGED <<env, fetched, inserted, events, exc, last_pop, store, url_counter, stats, since_new_url, stop_event,
                   interrupted, answers, cpc, locals>>

\* the order Redis breaks score ties by: the members' byte order
MemberBefore(u, v) ==
    <<u, v>> \in {<<"A", "D">>, <<"A", "B">>, <<"A", "C">>, <<"D", "B">>, <<"D", "C">>,
                  <<"B", "C">>,
                  <<"E", "A">>, <<"E", "D">>, <<"E", "B">>, <<"E", "C">>, <<"E", "X">>,
                  <<"A", "X">>, <<"D", "X">>, <<"B", "X">>, <<"C", "X">>}

\* mutant: the frontier is the list it once was and the worker pops the
\* entry pushed last (the highest sequence number), whatever its priority
LowestMember_Newest(q) ==
    CHOOSE u \in URLs :
        /\ q[u] # NoScore
        /\ \A v \in URLs : q[v] # NoScore => Milli[q[v]] % ScoreScale <= Milli[q[u]] % ScoreScale

\* mutant: the worker pops with ZPOPMAX instead of ZPOPMIN
LowestMember_Highest(q) ==
    CHOOSE u \in URLs :
        /\ q[u] # NoScore
        /\ \A v \in URLs : q[v] # NoScore =>
              \/ Less(q[v], q[u])
              \/ q[u] = q[v] /\ (u = v \/ MemberBefore(v, u))

\* ZPOPMIN key 1: the member with the lowest score, ties by member order
LowestMember(q) ==
    CHOOSE u \in URLs :
        /\ q[u] # NoScore
        /\ \A v \in URLs : q[v] # NoScore =>
              \/ Less(q[u], q[v])
              \/ q[u] = q[v] /\ (u = v \/ MemberBefore(u, v))

\* result = self.redis_client.zpopmin(self.PENDING_QUEUE, count=1)
Pop(w) ==
    /\ pc[w] = "pop"
    /\ IF Pending = {}
       THEN /\ pc' = [pc EXCEPT ![w] = "idle_check"]
            /\ UNCHANGED <<pending, url, score, last_pop>>
       ELSE LET u == LowestMember(pending) IN
            /\ pending' = [pending EXCEPT ![u] = NoScore]
            /\ url' = [url EXCEPT ![w] = u]
            /\ score' = [score EXCEPT ![w] = pending[u]]
            /\ last_pop' = pending[u]
            /\ pc' = [pc EXCEPT ![w] = "check_completed"]
    /\ UNCHANGED <<env, fetched, inserted, events, exc, completed, failed, data, url_counter, stats, since_new_url,
                   stop_event, interrupted, answers, cpc, new_count, attempt, addLocals>>

\* mutant: the idle test fires as soon as the timeout is reached (>= for >)
IdleCheck_AtLimit(w) ==
    /\ pc[w] = "idle_check"
    /\ pc' = [pc EXCEPT ![w] = IF since_new_url >= no_new_urls_timeout THEN "idle_stop" ELSE "loop"]
    /\ UNCHANGED <<env, fetched, inserted, events, exc, last_pop, store, url_counter, stats, since_new_url,
                   stop_event, interrupted, answers, cpc, locals>>

\* if time.time() - self.stats["last_new_url_time"] > self.no_new_urls_timeout
IdleCheck(w) ==
    /\ pc[w] = "idle_check"
    /\ pc' = [pc EXCEPT ![w] = IF since_new_url > no_new_urls_timeout THEN "idle_stop" ELSE "loop"]
    /\ UNCHANGED <<env, fetched, inserted, events, exc, last_pop, store, url_counter, stats, since_new_url,
                   stop_event, interrupted, answers, cpc, locals>>

\* mutant: the idle branch breaks without setting the stop flag
IdleStop_NoStop(w) ==
    /\ pc[w] = "idle_stop"
    /\ pc' = [pc EXCEPT ![w] = "done"]
    /\ UNCHANGED <<env, fetched, inserted, events, exc, last_pop, store, url_counter, stats, since_new_url,
                   stop_event, interrupted, answers, cpc, locals>>

\* the branch taken when the test held: self.stop_event.set(); break.  The
\* test and the set are separate steps of the thread, and other threads run
\* between them
IdleStop(w) ==
    /\ pc[w] = "idle_stop"
    /\ stop_event' = TRUE
    /\ pc' = [pc EXCEPT ![w] = "done"]
    /\ UNCHANGED <<env, fetched, inserted, events, exc, last_pop, store, url_counter, stats, since_new_url, interrupted, answers, cpc, locals>>

\* mutant: the popped URL is fetched without looking at the completed set
CheckCompleted_NoSkip(w) ==
    /\ pc[w] = "check_completed"
    /\ pc' = [pc EXCEPT ![w] = "request"]
    /\ fetched' = [fetched EXCEPT ![url[w]] = @ + 1]
    /\ UNCHANGED <<env, inserted, events, exc, last_pop, store, url_counter, stats, since_new_url, stop_event,
                   interrupted, answers, cpc, locals>>

\* if self.redis_client.sismember(self.COMPLETED_SET, url): continue
CheckCompleted(w) ==
    /\ pc[w] = "check_completed"
    /\ pc' = [pc EXCEPT ![w] = IF url[w] \in completed THEN "loop" ELSE "request"]
    /\ fetched' = IF url[w] \in completed THEN fetched
                  ELSE [fetched EXCEPT ![url[w]] = @ + 1]
    /\ UNCHANGED <<env, inserted, events, exc, last_pop, store, url_counter, stats, since_new_url, stop_event,
                   interrupted, answers, cpc, locals>>

(***************************************************************************)
(* "except Exception as e" of worker_thread: whatever is raised inside the *)
(* loop body and not handled further in ends there.                        *)
(***************************************************************************)
\* the exception reaches the except branch: the frames of the calls that
\* were running (scrape_url, add_new_urls) are gone with their locals
Caught(w, kind) ==
    /\ pc' = [pc EXCEPT ![w] = "except"]
    /\ exc' = [exc EXCEPT ![w] = kind]
    /\ attempt' = [attempt EXCEPT ![w] = 0]
    /\ answers' = [answers EXCEPT ![w] = << >>]
    /\ queue' = [queue EXCEPT ![w] = << >>]
    /\ depth' = [depth EXCEPT ![w] = 0]
    /\ new_urls_count' = [new_urls_count EXCEPT ![w] = 0]
    /\ is_completed' = [is_completed EXCEPT ![w] = FALSE]
    /\ new_score' = [new_score EXCEPT ![w] = Zero]
    /\ UNCHANGED <<url, score, new_count>>

\* where the worker is about to send a Redis command that is in no
\* try block of its own: zpopmin, sismember, sadd (failed), sismember,
\* zscore, zadd, sadd (completed)
StoreSteps == {"pop", "check_completed", "mark_failed", "add_sismember", "add_zscore",
               "add_zadd", "mark_completed"}

\* the command raises instead of being carried out
StoreFault(w) ==
    /\ StoreFaults(env)
    /\ pc[w] \in StoreSteps
    /\ Caught(w, "store")
    /\ events' = [events EXCEPT ![w] = << >>]
    /\ inserted' = [inserted EXCEPT ![w] = FALSE]
    /\ UNCHANGED <<env, fetched, last_pop, store, url_counter, stats, since_new_url, stop_event,
                   interrupted, cpc>>

\* mutant: the except branch ends the worker thread (break after the log)
Handler_Exits(w) ==
    /\ pc[w] = "except"
    /\ pc' = [pc EXCEPT ![w] = "done"]
    /\ exc' = [exc EXCEPT ![w] = "none"]
    /\ UNCHANGED <<env, fetched, inserted, events, last_pop, store, url_counter, stats, since_new_url, stop_event,
                   interrupted, answers, cpc, locals>>

\* mutant: the except branch sets the stop flag before it sleeps
Handler_SetsStop(w) ==
    /\ pc[w] = "except"
    /\ pc' = [pc EXCEPT ![w] = "loop"]
    /\ exc' = [exc EXCEPT ![w] = "none"]
    /\ stop_event' = TRUE
    /\ UNCHANGED <<env, fetched, inserted, events, last_pop, store, url_counter, stats, since_new_url,
                   interrupted, answers, cpc, locals>>

\* logger.error(f"Worker thread error: {e}"); time.sleep(1); back to the while test
Handler(w) ==
    /\ pc[w] = "except"
    /\ pc' = [pc EXCEPT ![w] = "loop"]
    /\ exc' = [exc EXCEPT ![w] = "none"]
    /\ UNCHANGED <<env, fetched, inserted, events, last_pop, store, url_counter, stats, since_new_url, stop_event,
                   interrupted, answers, cpc, locals>>

(***************************************************************************)
(* scrape_url: one step per attempt of "for attempt in range(max_retries)".*)
(* attempt is a local of the call: it is 0 whenever no call is running.    *)
(***************************************************************************)
\* self.request_delay, in milliseconds
request_delay == 500

backoff_factor == 2

\* the argument of time.sleep is in seconds
Seconds(n) == n * 1000

\* time.sleep(self.request_delay)
DelayEv == [kind |-> "delay", ms |-> request_delay]

\* self.session.get(url, timeout=10)
RequestEv == [kind |-> "request", ms |-> 0]

\* wait_time = self.backoff_factor**attempt; time.sleep(wait_time)
BackoffEv(k) == [kind |-> "backoff", ms |-> Seconds(backoff_factor ^ k)]

\* the worker's log after the politeness delay and the request of this attempt
Attempted(w) == events[w] \o <<DelayEv, RequestEv>>

\* the attempt succeeded: urls_scraped += 1, return data; the worker tests "if data:"
RequestOk(w, answer) ==
    /\ urls_scraped' = urls_scraped + 1
    /\ attempt' = [attempt EXCEPT ![w] = 0]
    /\ answers' = [answers EXCEPT ![w] = << >>]
    /\ pc' = [pc EXCEPT ![w] = IF answer = "full" THEN "save" ELSE "loop"]
    /\ events' = [events EXCEPT ![w] = IF answer = "full" THEN Attempted(w) ELSE << >>]
    /\ UNCHANGED <<urls_failed, errors>>

\* the range of "for attempt in range(self.max_retries)"
Attempts == 0 .. (max_retries - 1)

\* mutant: the exhaustion test is "attempt < self.max_retries"
RequestFailed_OffByOne(w) ==
    IF attempt[w] < max_retries
    THEN /\ attempt' = [attempt EXCEPT ![w] = attempt[w] + 1]
         /\ answers' = [answers EXCEPT ![w] = Append(answers[w], "http_error")]
         /\ events' = [events EXCEPT ![w] = Append(Attempted(w), BackoffEv(attempt[w]))]
         /\ UNCHANGED <<pc, stats>>
    ELSE /\ urls_failed' = urls_failed + 1
         /\ errors' = Append(errors, url[w])
         /\ answers' = [answers EXCEPT ![w] = Append(answers[w], "http_error")]
         /\ events' = [events EXCEPT ![w] = Attempted(w)]
         /\ pc' = [pc EXCEPT ![w] = "mark_failed"]
         /\ UNCHANGED <<urls_scraped, attempt>>

\* mutant: the backoff wait is backoff_factor seconds after every failed attempt
RequestFailed_FlatBackoff(w) ==
    IF attempt[w] < max_retries - 1
    THEN /\ attempt' = [attempt EXCEPT ![w] = attempt[w] + 1]
         /\ answers' = [answers EXCEPT ![w] = Append(answers[w], "http_error")]
         /\ events' = [events EXCEPT ![w] = Append(Attempted(w), BackoffEv(1))]
         /\ UNCHANGED <<pc, stats>>
    ELSE /\ urls_failed' = urls_failed + 1
         /\ errors' = Append(errors, url[w])
         /\ answers' = [answers EXCEPT ![w] = Append(answers[w], "http_error")]
         /\ events' = [events EXCEPT ![w] = Attempted(w)]
         /\ pc' = [pc EXCEPT ![w] = "mark_failed"]
         /\ UNCHANGED <<urls_scraped, attempt>>

\* except requests.exceptions.RequestException
RequestFailed(w) ==
    IF attempt[w] < max_retries - 1
    THEN /\ attempt' = [attempt EXCEPT ![w] = attempt[w] + 1]
         /\ answers' = [answers EXCEPT ![w] = Append(answers[w], "http_error")]
         /\ events' = [events EXCEPT ![w] = Append(Attempted(w), BackoffEv(attempt[w]))]
         /\ UNCHANGED <<pc, stats>>
    ELSE /\ urls_failed' = urls_failed + 1
         /\ errors' = Append(errors, url[w])
         /\ answers' = [answers EXCEPT ![w] = Append(answers[w], "http_error")]
         /\ events' = [events EXCEPT ![w] = Attempted(w)]
         /\ pc' = [pc EXCEPT ![w] = "mark_failed"]
         /\ UNCHANGED <<urls_scraped, attempt>>

\* except Exception: the error is logged and None is returned
RequestRaised(w) ==
    /\ errors' = Append(errors, url[w])
    /\ attempt' = [attempt EXCEPT ![w] = 0]
    /\ answers' = [answers EXCEPT ![w] = << >>]
    /\ pc' = [pc EXCEPT ![w] = "loop"]
    /\ events' = [events EXCEPT ![w] = << >>]
    /\ UNCHANGED <<urls_scraped, urls_failed>>

\* the for loop ran out of attempts: scrape_url ends without a return statement
ScrapeFallThrough(w) ==
    /\ attempt' = [attempt EXCEPT ![w] = 0]
    /\ answers' = [answers EXCEPT ![w] = << >>]
    /\ pc' = [pc EXCEPT ![w] = "loop"]
    /\ events' = [events EXCEPT ![w] = << >>]
    /\ UNCHANGED stats

Request(w) ==
    /\ pc[w] = "request"
    /\ IF attempt[w] \in Attempts
       THEN \E answer \in Answers(env, url[w]) :
               CASE answer \in {"full", "empty"} -> RequestOk(w, answer)
                 [] answer = "http_error" -> RequestFailed(w)
                 [] answer = "exception" -> RequestRaised(w)
       ELSE ScrapeFallThrough(w)
    /\ UNCHANGED <<env, fetched, inserted, exc, last_pop, store, url_counter, since_new_url, stop_event, interrupted,
                   cpc, url, score, new_count, addLocals>>

\* mutant: the failed URL is added to the completed set
MarkFailed_AsCompleted(w) ==
    /\ pc[w] = "mark_failed"
    /\ completed' = completed \cup {url[w]}
    /\ attempt' = [attempt EXCEPT ![w] = 0]
    /\ answers' = [answers EXCEPT ![w] = << >>]
    /\ pc' = [pc EXCEPT ![w] = "loop"]
    /\ events' = [events EXCEPT ![w] = << >>]
    /\ UNCHANGED <<env, fetched, inserted, exc, last_pop, pending, failed, data, url_counter, stats, since_new_url,
                   stop_event, interrupted, cpc, url, score, new_count, addLocals>>

\* self.redis_client.sadd(self.FAILED_SET, url); return None
MarkFailed(w) ==
    /\ pc[w] = "mark_failed"
    /\ failed' = failed \cup {url[w]}
    /\ attempt' = [attempt EXCEPT ![w] = 0]
    /\ answers' = [answers EXCEPT ![w] = << >>]
    /\ pc' = [pc EXCEPT ![w] = "loop"]
    /\ events' = [events EXCEPT ![w] = << >>]
    /\ UNCHANGED <<env, fetched, inserted, exc, last_pop, pending, completed, data, url_counter, stats, since_new_url,
                   stop_event, interrupted, cpc, url, score, new_count, addLocals>>

(***************************************************************************)
(* The success branch of the worker: save_response_data, then              *)
(* extract_urls_from_response, then add_new_urls, then the completion mark.*)
(* queue, depth, new_urls_count, is_completed and new_score are locals of  *)
(* the add_new_urls call: they hold their initial values whenever no call  *)
(* is running.                                                             *)
(***************************************************************************)
\* return new_urls_count: the call's locals go, the worker holds new_count
AddReturn(w, count) ==
    /\ new_count' = [new_count EXCEPT ![w] = count]
    /\ queue' = [queue EXCEPT ![w] = << >>]
    /\ depth' = [depth EXCEPT ![w] = 0]
    /\ new_urls_count' = [new_urls_count EXCEPT ![w] = 0]
    /\ is_completed' = [is_completed EXCEPT ![w] = FALSE]
    /\ new_score' = [new_score EXCEPT ![w] = Zero]
    /\ pc' = [pc EXCEPT ![w] = "mark_completed"]

\* the "for url in urls" loop goes on with the rest of the list, and after it
\* "if new_urls_count > 0" sends the call to the timestamp or to its return
AddContinue(w, rest, count) ==
    IF rest = << >> /\ count = 0
    THEN AddReturn(w, 0)
    ELSE /\ queue' = [queue EXCEPT ![w] = rest]
         /\ new_urls_count' = [new_urls_count EXCEPT ![w] = count]
         /\ pc' = [pc EXCEPT ![w] = IF rest # << >> THEN "add_sismember" ELSE "add_time"]
         /\ UNCHANGED <<new_count, depth, is_completed, new_score>>

\* save_response_data; new_urls, current_depth and the call of add_new_urls
Save(w) ==
    /\ pc[w] = "save"
    /\ \E wrote \in WriteOutcomes(env) :
          data' = IF wrote
                  THEN {r \in data : r.key # DataKey(url[w])}
                          \cup {[key |-> DataKey(url[w]), url |-> url[w]]}
                  ELSE data
    /\ IF BadLinks(env, url[w])
       THEN Caught(w, "internal")
       ELSE /\ LET new_urls == ExtractUrls(Links(env, url[w])) IN
                  IF new_urls = << >>
                  THEN AddReturn(w, 0)
                  ELSE /\ queue' = [queue EXCEPT ![w] = new_urls]
                       /\ depth' = [depth EXCEPT ![w] = CurrentDepth(score[w]) + 1]
                       /\ new_urls_count' = [new_urls_count EXCEPT ![w] = 0]
                       /\ pc' = [pc EXCEPT ![w] = "add_sismember"]
                       /\ UNCHANGED <<new_count, is_completed, new_score>>
            /\ UNCHANGED <<exc, answers, attempt>>
    /\ events' = [events EXCEPT ![w] = << >>]
    /\ UNCHANGED <<env, fetched, inserted, last_pop, pending, completed, failed, url_counter, stats, since_new_url,
                   stop_event, interrupted, cpc, url, score>>

\* is_completed = self.redis_client.sismember(self.COMPLETED_SET, url)
AddSismember(w) ==
    /\ pc[w] = "add_sismember"
    /\ is_completed' = [is_completed EXCEPT ![w] = Head(queue[w]) \in completed]
    /\ pc' = [pc EXCEPT ![w] = "add_zscore"]
    /\ UNCHANGED <<env, fetched, inserted, events, exc, last_pop, store, url_counter, stats, since_new_url, stop_event,
                   interrupted, answers, cpc, url, score, new_count, attempt, queue, depth,
                   new_urls_count, new_score>>

\* mutant: "if not is_completed or not is_pending"
IsNew_Or(was_completed, was_pending) == ~was_completed \/ ~was_pending

\* the test of add_new_urls on what the two reads returned
IsNew(was_completed, was_pending) == ~was_completed /\ ~was_pending

\* is_pending = self.redis_client.zscore(...) is not None; if not is_completed and not is_pending
AddZscore(w) ==
    /\ pc[w] = "add_zscore"
    /\ IF IsNew(is_completed[w], pending[Head(queue[w])] # NoScore)
       THEN /\ pc' = [pc EXCEPT ![w] = "add_score"]
            /\ UNCHANGED <<new_count, addLocals>>
       ELSE AddContinue(w, Tail(queue[w]), new_urls_count[w])
    /\ UNCHANGED <<env, fetched, inserted, events, exc, last_pop, store, url_counter, stats, since_new_url, stop_event,
                   interrupted, answers, cpc, url, score, attempt>>

\* mutant: the counter is read under the lock but not incremented
AddScore_NoIncrement(w) ==
    /\ pc[w] = "add_score"
    /\ url_counter' = url_counter
    /\ new_score' = [new_score EXCEPT ![w] =
                        CalculateUrlScore(Head(queue[w]), depth[w], url_counter)]
    /\ pc' = [pc EXCEPT ![w] = "add_zadd"]
    /\ UNCHANGED <<env, fetched, inserted, events, exc, last_pop, store, stats, since_new_url, stop_event, interrupted, answers, cpc,
                   url, score, new_count, attempt, queue, depth, new_urls_count,
                   is_completed>>

\* score = self._calculate_url_score(url, depth): the counter is drawn under stats_lock
AddScore(w) ==
    /\ pc[w] = "add_score"
    /\ url_counter' = url_counter + 1
    /\ new_score' = [new_score EXCEPT ![w] =
                        CalculateUrlScore(Head(queue[w]), depth[w], url_counter + 1)]
    /\ pc' = [pc EXCEPT ![w] = "add_zadd"]
    /\ UNCHANGED <<env, fetched, inserted, events, exc, last_pop, store, stats, since_new_url, stop_event, interrupted, answers, cpc,
                   url, score, new_count, attempt, queue, depth, new_urls_count,
                   is_completed>>

\* self.redis_client.zadd(self.PENDING_QUEUE, {url: score}); new_urls_count += 1
AddZadd(w) ==
    /\ pc[w] = "add_zadd"
    /\ pending' = [pending EXCEPT ![Head(queue[w])] = new_score[w]]
    /\ last_pop' = IF Less(new_score[w], last_pop) THEN Zero ELSE last_pop
    /\ AddContinue(w, Tail(queue[w]), new_urls_count[w] + 1)
    /\ inserted' = [inserted EXCEPT ![w] = @ \/ pending[Head(queue[w])] = NoScore]
    /\ UNCHANGED <<env, fetched, events, exc, completed, failed, data, url_counter, stats, since_new_url,
                   stop_event, interrupted, answers, cpc, url, score, attempt>>

\* if new_urls_count > 0: self.stats["last_new_url_time"] = time.time(); return
AddTime(w) ==
    /\ pc[w] = "add_time"
    /\ since_new_url' = 0
    /\ AddReturn(w, new_urls_count[w])
    /\ inserted' = [inserted EXCEPT ![w] = FALSE]
    /\ UNCHANGED <<env, fetched, events, exc, last_pop, store, url_counter, stats, stop_event, interrupted, answers, cpc,
                   url, score, attempt>>

\* mutant: the completion mark also takes the URL out of the failed set
MarkCompleted_ClearsFailed(w) ==
    /\ pc[w] = "mark_completed"
    /\ completed' = completed \cup {url[w]}
    /\ failed' = failed \ {url[w]}
    /\ pc' = [pc EXCEPT ![w] = "loop"]
    /\ UNCHANGED <<env, fetched, inserted, events, exc, last_pop, pending, data, url_counter, stats, since_new_url,
                   stop_event, interrupted, answers, cpc, locals>>

\* self.redis_client.sadd(self.COMPLETED_SET, url)
MarkCompleted(w) ==
    /\ pc[w] = "mark_completed"
    /\ completed' = completed \cup {url[w]}
    /\ pc' = [pc EXCEPT ![w] = "loop"]
    /\ UNCHANGED <<env, fetched, inserted, events, exc, last_pop, pending, failed, data, url_counter, stats, since_new_url,
                   stop_event, interrupted, answers, cpc, locals>>

Next ==
    \/ RunStart
    \/ Signal
    \/ CoordPoll
    \/ CoordJoin
    \/ CoordJoinTimeout
    \/ CoordUnwind
    \/ Tick
    \/ \E w \in Workers : LoopCheck(w)
    \/ \E w \in Workers : Pop(w)
    \/ \E w \in Workers : IdleCheck(w)
    \/ \E w \in Workers : IdleStop(w)
    \/ \E w \in Workers : CheckCompleted(w)
    \/ \E w \in Workers : Request(w)
    \/ \E w \in Workers : MarkFailed(w)
    \/ \E w \in Workers : Save(w)
    \/ \E w \in Workers : AddSismember(w)
    \/ \E w \in Workers : AddZscore(w)
    \/ \E w \in Workers : AddScore(w)
    \/ \E w \in Workers : AddZadd(w)
    \/ \E w \in Workers : AddTime(w)
    \/ \E w \in Workers : MarkCompleted(w)

Spec == Init /\ [][Next]_vars

(***************************************************************************)
(* The crawl with a Redis whose commands may raise and a payload that the  *)
(* link extraction cannot handle: the same steps, and the except branch of *)
(* worker_thread.                                                          *)
(***************************************************************************)
FaultInit == Constructed(FaultEnvs)

FaultNext ==
    \/ Next
    \/ \E w \in Workers : StoreFault(w)
    \/ \E w \in Workers : Handler(w)

FaultSpec == FaultInit /\ [][FaultNext]_vars

TypeOK ==
    /\ \A u \in URLs : pending[u] = NoScore \/ IsDouble(pending[u])
    /\ completed \subseteq URLs
    /\ failed \subseteq URLs
    /\ pc \in [Workers -> {"new", "loop", "pop", "idle_check", "idle_stop", "check_completed",
                           "request", "mark_failed", "save", "add_sismember",
                           "add_zscore", "add_score", "add_zadd", "add_time",
                           "mark_completed", "except", "done"}]
    /\ exc \in [Workers -> {"none", "store", "internal"}]
    /\ fetched \in [URLs -> Nat]
    /\ inserted \in [Workers -> BOOLEAN]
    /\ \A w \in Workers : \A i \in 1 .. Len(events[w]) :
          events[w][i] \in [kind : {"delay", "request", "backoff"}, ms : Nat]

(***************************************************************************)
(* _calculate_url_score on its own.  The function is called with a URL and *)
(* a depth (0 by initialize_redis, current_depth + 1 by add_new_urls) and  *)
(* draws the sequence value from url_counter.  Here each caller stands     *)
(* right before such a call, with its arguments and the counter drawn from *)
(* sample sets, and other callers may draw from the counter in between.    *)
(***************************************************************************)
\* the largest depth and the largest counter value sampled
MaxDepth == 10
MaxCounter == 400001

Depths == {0, 1, MaxDepth}

\* the counter before a call: at the start of a run, where the sequence
\* term (counter * 0.001) reaches one depth step (10), and at MaxCounter
CounterSamples == {0, 1, 10 * ScoreScale - 1, 10 * ScoreScale, MaxCounter - 1, MaxCounter}

\* the URLs that pass the filter of extract_urls_from_response: only these
\* reach the scoring step of add_new_urls
Rooted == {u \in URLs : UrlText(u) # <<"">> /\ StartsWithRoot(UrlText(u))}

ScoreInit ==
    /\ env = "E2E"
    /\ pending = EmptyQueue
    /\ completed = {}
    /\ failed = {}
    /\ data = {}
    /\ url_counter \in CounterSamples
    /\ urls_scraped = 0
    /\ urls_failed = 0
    /\ errors = << >>
    /\ since_new_url = 0
    /\ stop_event = FALSE
    /\ interrupted = FALSE
    /\ last_pop = Zero
    /\ exc = [w \in Workers |-> "none"]
    /\ fetched = [u \in URLs |-> 0]
    /\ inserted = [w \in Workers |-> FALSE]
    /\ events = [w \in Workers |-> << >>]
    /\ answers = [w \in Workers |-> << >>]
    /\ cpc = "poll"
    /\ pc = [w \in Workers |-> "add_score"]
    /\ url = [w \in Workers |-> "A"]
    /\ score = [w \in Workers |-> Zero]
    /\ new_count = [w \in Workers |-> 0]
    /\ attempt = [w \in Workers |-> 0]
    /\ queue \in [Workers -> {<<u>> : u \in Rooted}]
    /\ depth \in [Workers -> Depths]
    /\ new_urls_count = [w \in Workers |-> 0]
    /\ is_completed = [w \in Workers |-> FALSE]
    /\ new_score = [w \in Workers |-> Zero]

\* calls of _calculate_url_score by other callers: the counter has moved on
CounterAdvance ==
    /\ \E c \in CounterSamples : c > url_counter /\ url_counter' = c
    /\ UNCHANGED <<env, fetched, inserted, events, exc, last_pop, store, stats, since_new_url, stop_event, interrupted, answers,
                   cpc, pc, locals>>

ScoreNext ==
    \/ CounterAdvance
    \/ \E w \in Workers : AddScore(w)

ScoreSpec == ScoreInit /\ [][ScoreNext]_vars

(***************************************************************************)
(* Properties                                                              *)
(***************************************************************************)
\* every worker has left worker_thread: the crawl has halted
Halted == AllDone

\* the worker is inside a call of add_new_urls
InAdd(w) == pc[w] \in {"add_sismember", "add_zscore", "add_score", "add_zadd", "add_time"}

\* the URLs that have a persisted record
Recorded == {r.url : r \in data}

\* C1: no URL is at the same time in the completed set and in the pending
\* frontier.
C1_CompletedNotPending == completed \cap Pending = {}

\* C2: in the concurrent-discovery run (two seeds whose payloads both link
\* to the same URL), while two workers are in add_new_urls at the same time
\* at most one of the two calls has counted the shared URL as new, and the
\* sequence counter has been drawn once for it (once per seed, once for it).
C2_SharedUrlEnqueuedOnce ==
    \A w1, w2 \in Workers :
        (env = "Discovery" /\ w1 # w2 /\ InAdd(w1) /\ InAdd(w2))
        => /\ new_urls_count[w1] + new_urls_count[w2] <= 1
           /\ url_counter <= Len(Seeds(env)) + 1

\* C3: the completed set and the failed set are disjoint.
C3_CompletedNotFailed == completed \cap failed = {}

\* C4: a URL is in at most one of pending, completed and failed.
C4_AtMostOneOfThree ==
    \A u \in URLs :
        Cardinality({s \in {"pending", "completed", "failed"} :
                        \/ s = "pending" /\ u \in Pending
                        \/ s = "completed" /\ u \in completed
                        \/ s = "failed" /\ u \in failed}) <= 1

\* C5: when a worker comes back to the top of its loop from a URL it popped
\* and did not skip, that URL is in the completed set or in the failed set.
C5_PoppedUrlIsSettled ==
    [][\A w \in Workers :
          (pc[w] \in {"request", "mark_failed", "mark_completed"} /\ pc'[w] = "loop")
          => url[w] \in completed' \cup failed']_vars

\* C6: in the end-to-end run (seed A, A links to B and C, every
\* request succeeds, no interrupt), once the crawl has halted, completed is
\* {A, B, C}, failed is empty, three records are persisted and the frontier
\* is empty.
C6_EndToEndComplete ==
    (env = "E2E" /\ Halted /\ ~interrupted)
    => /\ completed = {"A", "B", "C"}
       /\ failed = {}
       /\ Cardinality(data) = 3
       /\ Pending = {}

\* C7: in the run whose seed A answers every request with 404 (no
\* interrupt), once the crawl has halted, failed is {A}, completed is empty
\* and no record is persisted.
C7_NotFoundHalt ==
    (env = "NotFound" /\ Halted /\ ~interrupted)
    => /\ failed = {"A"}
       /\ completed = {}
       /\ data = {}

C7_Witness == env = "NotFound" /\ Halted /\ ~interrupted /\ failed = {"A"}

\* C8: a scrape_url call sends at most max_retries requests; after the
\* max_retries-th failed request it sends no further one: urls_failed goes
\* up by one, then the URL is added to the failed set and the call returns.
C8_RetryLimit ==
    /\ [](\A w \in Workers :
             /\ Len(answers[w]) <= max_retries
             /\ Len(answers[w]) = max_retries => pc[w] = "mark_failed")
    /\ [][\A w \in Workers :
             /\ (pc[w] = "request" /\ pc'[w] = "mark_failed")
                => urls_failed' = urls_failed + 1
             /\ (pc[w] = "mark_failed" /\ pc'[w] # "mark_failed")
                => /\ pc'[w] = "loop"
                   /\ failed' = failed \cup {url[w]}
                   /\ urls_failed' = urls_failed]_vars

C8_Witness ==
    \E w \in Workers :
        /\ pc[w] = "loop" /\ url[w] \in failed /\ urls_failed = 1
        /\ "full" \in Answers(env, url[w])

\* C9: a pop removes from the frontier and hands to the worker a member
\* whose score is the lowest of the frontier at that moment, and finds the
\* frontier empty only when it has no member.
C9_PopMinimum ==
    [][\A w \in Workers :
          (pc[w] = "pop" /\ pc'[w] # "pop")
          => IF Pending = {}
             THEN pc'[w] = "idle_check" /\ pending' = pending
             ELSE /\ pc'[w] = "check_completed"
                  /\ url'[w] \in Pending
                  /\ \A v \in Pending : LessEq(pending[url'[w]], pending[v])
                  /\ score'[w] = pending[url'[w]]
                  /\ pending' = [pending EXCEPT ![url'[w]] = NoScore]]_vars

C9_Witness ==
    \E w \in Workers :
        /\ pc[w] = "check_completed"
        /\ Pending # {}
        /\ \A v \in Pending : Less(score[w], pending[v])

\* C10: when add_new_urls finds a URL of its list completed or pending, it
\* passes on to the rest of the list without changing the frontier, the
\* sequence counter, last_new_url_time or its count of new URLs; a call
\* that ends there with nothing counted returns 0.
C10_PresentUrlIsNoOp ==
    [][\A w \in Workers :
          (/\ pc[w] = "add_zscore" /\ pc'[w] # "add_zscore"
           /\ (is_completed[w] \/ Head(queue[w]) \in Pending))
          => /\ pending' = pending
             /\ url_counter' = url_counter
             /\ since_new_url' = since_new_url
             /\ pc'[w] \in {"add_sismember", "add_time", "mark_completed"}
             /\ IF pc'[w] = "mark_completed"
                THEN new_count'[w] = 0 /\ new_urls_count[w] = 0
                ELSE new_urls_count'[w] = new_urls_count[w]]_vars

C10_Witness ==
    \E w \in Workers :
        /\ pc[w] = "mark_completed"
        /\ Links(env, url[w]) # << >>
        /\ new_count[w] = 0

\* C11: while a URL stays in the pending frontier its score does not change
\* (the score a URL got when it was enqueued is the score it is popped with).
C11_PendingScoreFixed ==
    [][\A u \in URLs :
          (pending[u] # NoScore /\ pending'[u] # NoScore) => pending'[u] = pending[u]]_vars

\* the worker's call of _calculate_url_score has returned
Scored(w) == pc[w] = "add_zadd"

\* the resource type of the URL the worker's call was made for
ScoredType(w) == ResourceType(UrlText(Head(queue[w])))

\* C12: a depth-0 URL of type films (type_priority 1) scores strictly lower
\* than a depth-0 URL of type species (type_priority 5), whatever sequence
\* values the two calls drew from the counter.
C12_TypeDominates ==
    \A w1, w2 \in Workers :
        (/\ Scored(w1) /\ Scored(w2)
         /\ ScoredType(w1) = "films" /\ ScoredType(w2) = "species"
         /\ depth[w1] = 0 /\ depth[w2] = 0)
        => Less(new_score[w1], new_score[w2])

\* C13: for two URLs of the same resource type, the one of the smaller
\* depth scores strictly lower, whatever sequence values the two calls drew
\* from the counter.
C13_DepthDominates ==
    \A w1, w2 \in Workers :
        (/\ Scored(w1) /\ Scored(w2)
         /\ ScoredType(w1) = ScoredType(w2)
         /\ depth[w1] < depth[w2])
        => Less(new_score[w1], new_score[w2])

\* C20: the depth a worker recovers from the score of a popped item, plus
\* one, is the depth the item was enqueued with, plus one: the URLs found
\* in the payload of a depth-d item are enqueued with depth d + 1.
C20_DiscoveredDepth ==
    \A w \in Workers :
        Scored(w) => CurrentDepth(new_score[w]) + 1 = depth[w] + 1

\* the worker's pop returned a URL in this step
Popped(w) == pc[w] = "pop" /\ pc'[w] = "check_completed"

\* C14 as stated: the score a pop returns is not lower than the score any
\* earlier pop returned (each worker's score is what its latest pop
\* returned), so the sequence of popped scores is non-decreasing.
C14_PopOrder ==
    [][\A w \in Workers :
          Popped(w) => \A w2 \in Workers : LessEq(score[w2], score'[w])]_vars

\* C14 amended: the score a pop returns is not lower than the score the
\* pop before it returned, unless a URL was enqueued with a score below
\* that one in between.
C14_PopOrderBetweenEnqueues ==
    [][\A w \in Workers :
          Popped(w) => LessEq(last_pop, score'[w]) /\ last_pop' = score'[w]]_vars

C14_Witness ==
    \E w \in Workers :
        /\ pc[w] = "check_completed"
        /\ last_pop = score[w]
        /\ \E w2 \in Workers : w2 # w /\ Less(Zero, score[w2]) /\ Less(score[w2], score[w])

\* the worker sends a request in this step (its politeness delay is over)
Requests(w) ==
    /\ pc[w] = "request" /\ attempt[w] \in Attempts
    /\ (pc'[w] # "request" \/ attempt'[w] # attempt[w])

\* C15: once the stop flag is set, a worker that is in scrape_url (in the
\* politeness delay or in a backoff sleep) sends no further request, and a
\* worker that comes back to the loop from the idle-poll sleep pops no
\* further URL.
C15_StopObservedAfterSleep ==
    [][\A w \in Workers :
          /\ stop_event => ~Requests(w)
          /\ (stop_event /\ pc[w] = "loop") => pc'[w] # "pop"]_vars

\* C16: once the stop flag is set and run() waits for the workers, the wait
\* ends, when every worker has exited or when the 30-second timeout has
\* elapsed, in the report of the final statistics.
C16_WaitEndsInReport ==
    [][(cpc = "join" /\ cpc' # "join") => cpc' = "done"]_vars

\* run() passes from its setup to the running worker pool in this step
Started == cpc = "start" /\ cpc' # "start"

\* C17 as stated: starting a run keeps the completed set, the failed set,
\* the pending frontier and the persisted records that Redis holds from an
\* earlier run.
C17_StartKeepsState ==
    [][Started => /\ completed \subseteq completed'
                  /\ failed \subseteq failed'
                  /\ data \subseteq data'
                  /\ \A u \in Pending : pending'[u] = pending[u]]_vars

\* C17 amended: starting a run empties the completed set and the failed
\* set, deletes every persisted record and replaces the pending frontier by
\* the seed list, whatever an earlier run left; a URL the earlier run
\* completed is not skipped, it is popped and fetched again when it is a
\* seed or is discovered again.
C17_StartClearsState ==
    /\ [][Started => /\ completed' = {}
                     /\ failed' = {}
                     /\ data' = {}
                     /\ Pending' = {Seeds(env)[i] : i \in 1 .. Len(Seeds(env))}]_vars
    /\ [](env = "Rerun" => \A w \in Workers : pc[w] = "check_completed" => url[w] \notin completed)

C17_Witness ==
    \E w \in Workers :
        /\ env = "Rerun"
        /\ pc[w] = "mark_completed" /\ url[w] = "B"
        /\ completed = {}

\* the worker's scrape_url call ends in this step on an exception that is
\* no RequestException (the only return to the loop that counts no scrape)
Raised(w) ==
    /\ pc[w] = "request" /\ attempt[w] \in Attempts
    /\ pc'[w] = "loop" /\ urls_scraped' = urls_scraped

\* C18: a fetch that ends on a non-network exception is not retried and is
\* a terminal failure: the URL is added to the failed set, urls_failed goes
\* up by one, the error is logged and the worker is back at its loop.
C18_RaisedIsTerminalFailure ==
    [][\A w \in Workers :
          Raised(w) => /\ failed' = failed \cup {url[w]}
                       /\ urls_failed' = urls_failed + 1
                       /\ errors' = Append(errors, url[w])
                       /\ pc'[w] = "loop"]_vars

\* the worker holds a popped URL and has not finished its iteration
Processing(w) ==
    pc[w] \in {"check_completed", "request", "mark_failed", "save", "add_sismember",
               "add_zscore", "add_score", "add_zadd", "add_time", "mark_completed"}

\* the worker takes the idle-timeout stop in this step
IdleStopTaken(w) == pc[w] = "idle_stop" /\ pc'[w] = "done"

\* C19: when the crawl has halted without an external interrupt (so on the
\* idle timeout), the pending frontier is empty; and no worker takes the
\* idle-timeout stop while another worker is processing a popped URL.
C19_IdleHaltFrontierEmpty ==
    /\ []((Halted /\ ~interrupted) => Pending = {})
    /\ [][\A w \in Workers :
             IdleStopTaken(w) => \A w2 \in Workers : ~Processing(w2)]_vars

\* the worker is between two iterations of its loop (or has not started, or
\* has exited)
AtLoopTop(w) == pc[w] \in {"new", "loop", "done"}

\* C21: whenever no worker is in the middle of an iteration, the URLs that
\* have a persisted record are the URLs of the completed set, with one
\* record each, also when a write to the store failed.
C21_RecordsMatchCompleted ==
    (\A w \in Workers : AtLoopTop(w))
    => /\ Recorded = completed
       /\ Cardinality(data) = Cardinality(completed)

\* C22: a worker sets the stop flag only in an iteration whose pop found
\* the frontier empty and whose test found that more than
\* no_new_urls_timeout had passed since last_new_url_time; an empty pop
\* within the timeout sends the worker back to its loop (sleep, poll again)
\* with the flag as it was, and no step of an iteration whose pop returned
\* an item changes the flag.
C22_IdleStopOnlyAfterTimeout ==
    [][\A w \in Workers :
          /\ (pc[w] # "idle_check" /\ pc'[w] = "idle_check")
             => pc[w] = "pop" /\ Pending = {}
          /\ (pc[w] = "idle_check" /\ pc'[w] # "idle_check")
             => /\ stop_event' = stop_event
                /\ pc'[w] = IF since_new_url > no_new_urls_timeout
                            THEN "idle_stop" ELSE "loop"
          /\ (pc[w] # "idle_stop" /\ pc'[w] = "idle_stop")
             => pc[w] = "idle_check"
          /\ (pc[w] = "idle_stop" /\ pc'[w] # "idle_stop")
             => stop_event' /\ pc'[w] = "done"
          /\ (pc[w] # "idle_stop" /\ pc'[w] # pc[w])
             => stop_event' = stop_event]_vars

C22_Witness ==
    \E w, w2 \in Workers :
        /\ pc[w] = "done" /\ stop_event /\ ~interrupted
        /\ since_new_url > no_new_urls_timeout
        /\ pc[w2] = "loop"

\* how many requests the log holds among its first i events
RequestsUpTo(log, i) == Cardinality({j \in 1 .. i : log[j].kind = "request"})

\* C23: in the log of one scrape_url call every request comes right after
\* one politeness delay of request_delay (retries too); a failed attempt k
\* (from 0) that is not the last is followed by one backoff wait of
\* backoff_factor^k seconds and then by the delay of the next attempt; no
\* backoff follows the last attempt, after which the call holds max_retries
\* requests; a call that is about to make attempt k > 0 has just waited.
C23_ScrapeEventOrder ==
    \A w \in Workers :
        LET log == events[w]
            n == Len(log)
        IN  /\ \A i \in 1 .. n :
                  /\ log[i].kind = "request"
                     => /\ i > 1 /\ log[i - 1] = DelayEv
                        /\ RequestsUpTo(log, i) <= max_retries
                        /\ i < n => /\ log[i + 1] = BackoffEv(RequestsUpTo(log, i) - 1)
                                    /\ RequestsUpTo(log, i) < max_retries
                  /\ log[i].kind = "delay"
                     => i < n /\ log[i + 1] = RequestEv
                  /\ log[i].kind = "backoff"
                     => /\ i > 1 /\ log[i - 1] = RequestEv
                        /\ i < n => log[i + 1] = DelayEv
            /\ pc[w] = "request"
               => /\ RequestsUpTo(log, n) = attempt[w]
                  /\ attempt[w] > 0 => log[n] = BackoffEv(attempt[w] - 1)
            /\ pc[w] = "mark_failed"
               => RequestsUpTo(log, n) = max_retries /\ log[n] = RequestEv
            /\ pc[w] = "save" => log[n] = RequestEv

C23_Witness ==
    \E w \in Workers :
        /\ pc[w] = "save"
        /\ events[w] = <<DelayEv, RequestEv, BackoffEv(0),
                         DelayEv, RequestEv, BackoffEv(1), DelayEv, RequestEv>>

\* C24: a worker that popped a URL of the completed set skips it: the pop
\* took the entry out of the frontier and changed nothing else, and the
\* step after it takes the worker back to its loop with no request sent, no
\* record written, nothing enqueued, and the frontier, completed, failed,
\* the statistics, the sequence counter and last_new_url_time as they were.
C24_CompletedUrlSkipped ==
    [][\A w \in Workers :
          /\ (Popped(w) /\ url'[w] \in completed)
             => /\ pending' = [pending EXCEPT ![url'[w]] = NoScore]
                /\ UNCHANGED <<completed, failed, data, stats, url_counter, since_new_url>>
          /\ (/\ pc[w] = "check_completed" /\ pc'[w] # "check_completed"
              /\ url[w] \in completed)
             => /\ pc'[w] = "loop"
                /\ events'[w] = << >> /\ answers'[w] = << >> /\ queue'[w] = << >>
                /\ UNCHANGED <<store, stats, url_counter, since_new_url>>]_vars

C24_Witness ==
    \E w \in Workers :
        /\ env = "Odd"
        /\ pc[w] = "loop" /\ url[w] = "A" /\ CurrentDepth(score[w]) = 1
        /\ completed = {"A"} /\ Pending = {}
        /\ urls_scraped = 1 /\ urls_failed = 0 /\ errors = << >>
        /\ Cardinality(data) = 1

\* the step in which the worker's except branch catches an exception
Catches(w) == pc[w] # "except" /\ pc'[w] = "except"

\* the step in which the worker leaves its except branch
Handled(w, kind) == pc[w] = "except" /\ exc[w] = kind /\ pc'[w] # "except"

\* C25: a Redis command of the worker loop that raises (pop, completed
\* test, enqueue, failure mark, completion mark) is caught by the worker's
\* except branch: the command has no effect on the store, the stop flag is
\* not set, and after the log and the sleep the worker is back at its loop
\* test; it does not exit, so nothing is raised through its future.
C25_StoreFailureContained ==
    [][\A w \in Workers :
          /\ (pc[w] \in StoreSteps /\ Catches(w))
             => /\ exc'[w] = "store"
                /\ UNCHANGED <<store, stop_event>>
          /\ Handled(w, "store")
             => /\ pc'[w] = "loop"
                /\ UNCHANGED <<store, stop_event>>]_vars

\* a state that only a contained store failure leaves behind: A was fetched
\* once with a payload, it is in none of the three sets, no worker holds it
\* any more and none is in the handler, and the flag is not set
C25_Witness ==
    /\ env = "Faulty" /\ cpc = "poll" /\ ~stop_event
    /\ fetched["A"] = 1 /\ urls_scraped = 1
    /\ Pending = {} /\ completed = {} /\ failed = {}
    /\ \A w \in Workers : pc[w] \in {"loop", "pop"} /\ exc[w] = "none"

\* C26 as stated: after an unexpected internal fault (an exception that is
\* no fetch failure) the worker's loop exits once the fault is logged, and
\* that exit does not set the stop flag.
C26_InternalFaultExits ==
    [][\A w \in Workers :
          Handled(w, "internal") => pc'[w] = "done" /\ stop_event' = stop_event]_vars

\* C26 amended: an unexpected internal fault is caught by the except branch
\* of the worker loop like any other exception: after the log and the sleep
\* the worker is back at its loop test and does not exit; neither the fault
\* nor the handling sets the stop flag or moves another worker.
C26_InternalFaultContained ==
    [][\A w \in Workers :
          /\ (pc[w] = "save" /\ Catches(w))
             => /\ exc'[w] = "internal"
                /\ stop_event' = stop_event
                /\ \A w2 \in Workers \ {w} : pc'[w2] = pc[w2]
          /\ Handled(w, "internal")
             => /\ pc'[w] = "loop"
                /\ stop_event' = stop_event
                /\ \A w2 \in Workers \ {w} : pc'[w2] = pc[w2]]_vars

C26_Witness ==
    \E w \in Workers :
        /\ pc[w] = "pop" /\ url[w] = "B" /\ "B" \in Recorded
        /\ ~stop_event
        /\ \E w2 \in Workers \ {w} : pc[w2] = "mark_completed"

(***************************************************************************)
(* The error log over a long crawl.  The pages fetched so far are not held *)
(* in the URL set of the model, only what they left in the statistics:     *)
(* the failures logged so far (each of them the text of a URL and of its   *)
(* exception; the URL is written "B").  The crawl goes on with the next    *)
(* pending URL, whose requests all fail.                                   *)
(***************************************************************************)
\* how many failures the crawl may have logged before
MaxErrors == 5

\* for error in self.stats["errors"][-5:]
ErrorsShown == 5

ErrorInit ==
    /\ env = "NotFound"
    /\ \E k \in 0 .. MaxErrors :
          /\ errors = [i \in 1 .. k |-> "B"]
          /\ urls_failed = k
          /\ failed = IF k > 0 THEN {"B"} ELSE {}
          /\ url_counter = k + 1
          /\ pending = [EmptyQueue EXCEPT !["A"] = CalculateUrlScore("A", 1, k + 1)]
    /\ completed = {}
    /\ data = {}
    /\ urls_scraped = 0
    /\ since_new_url = 0
    /\ stop_event = FALSE
    /\ interrupted = FALSE
    /\ last_pop = Zero
    /\ exc = [w \in Workers |-> "none"]
    /\ fetched = [u \in URLs |-> 0]
    /\ inserted = [w \in Workers |-> FALSE]
    /\ events = [w \in Workers |-> << >>]
    /\ answers = [w \in Workers |-> << >>]
    /\ cpc = "poll"
    /\ pc = [w \in Workers |-> "loop"]
    /\ url = [w \in Workers |-> "A"]
    /\ score = [w \in Workers |-> Zero]
    /\ new_count = [w \in Workers |-> 0]
    /\ attempt = [w \in Workers |-> 0]
    /\ queue = [w \in Workers |-> << >>]
    /\ depth = [w \in Workers |-> 0]
    /\ new_urls_count = [w \in Workers |-> 0]
    /\ is_completed = [w \in Workers |-> FALSE]
    /\ new_score = [w \in Workers |-> Zero]

ErrorNext ==
    \/ Tick
    \/ \E w \in Workers : LoopCheck(w)
    \/ \E w \in Workers : Pop(w)
    \/ \E w \in Workers : IdleCheck(w)
    \/ \E w \in Workers : IdleStop(w)
    \/ \E w \in Workers : CheckCompleted(w)
    \/ \E w \in Workers : Request(w)
    \/ \E w \in Workers : MarkFailed(w)

ErrorSpec == ErrorInit /\ [][ErrorNext]_vars

\* C27: the error log of the statistics never holds more than the fixed
\* number of entries the report shows.
C27_ErrorLogBounded == Len(errors) <= ErrorsShown

\* the worker's add_new_urls call returns in this step
AddReturns(w) == (pc[w] = "save" \/ InAdd(w)) /\ pc'[w] = "mark_completed"

\* the worker's add_new_urls call writes last_new_url_time in this step
Stamps(w) == pc[w] = "add_time" /\ pc'[w] # "add_time"

\* every change of last_new_url_time comes from a stamp of an add_new_urls
\* call (or is the passing of time): not from a failed fetch, a skipped
\* URL, the seeding of the frontier or any other step
OnlyStamped ==
    since_new_url' # since_new_url
    => \/ \E w \in Workers : Stamps(w)
       \/ pc' = pc /\ cpc' = cpc /\ since_new_url' > since_new_url

\* C28: an add_new_urls call writes last_new_url_time if and only
\* if one of its ZADDs added a URL that was not in the frontier; no other
\* step writes it.
C28_StampedIffInserted ==
    [][/\ \A w \in Workers :
             AddReturns(w) => (Stamps(w) <=> inserted[w])
       /\ OnlyStamped]_vars

\* the type and depth terms of the score the worker's call computes, in
\* thousandths
TierOf(w) == (TypePriority(ScoredType(w)) * 100) * ScoreScale + (depth[w] * 10) * ScoreScale

\* the worker's call of _calculate_url_score returns in this step
Scores(w) == pc[w] = "add_score" /\ pc'[w] = "add_zadd"

\* a frontier that holds the two URLs with the two scores and nothing else
FrontierOfTwo(u1, s1, u2, s2) == [EmptyQueue EXCEPT ![u1] = s1, ![u2] = s2]

\* C29: the sequence value of a score computation is the counter after one
\* increment, and differs from the sequence value of every computation made
\* before it in the run (by any thread); of two URLs of the same resource
\* type and depth the one scored first has the strictly lower score, and a
\* pop from a frontier holding both returns it.
C29_SequenceUniqueAndFifo ==
    [][\A w \in Workers :
          Scores(w)
          => /\ url_counter' = url_counter + 1
             /\ Milli[new_score'[w]] - TierOf(w) = url_counter'
             /\ \A w2 \in Workers \ {w} :
                   Scored(w2)
                   => /\ Milli[new_score[w2]] - TierOf(w2) # Milli[new_score'[w]] - TierOf(w)
                      /\ TierOf(w2) = TierOf(w)
                         => /\ Less(new_score[w2], new_score'[w])
                            /\ Head(queue[w2]) # Head(queue[w])
                               => LowestMember(FrontierOfTwo(Head(queue[w2]), new_score[w2],
                                                             Head(queue[w]), new_score'[w]))
                                     = Head(queue[w2])]_vars

C29_Witness ==
    \E w, w2 \in Workers :
        /\ Scored(w) /\ Scored(w2)
        /\ Head(queue[w]) = "A" /\ Head(queue[w2]) = "D"
        /\ depth[w] = depth[w2]
        /\ Less(new_score[w2], new_score[w])

\* C30: from the moment run() has set up the stores, no step takes a URL
\* out of the completed set or out of the failed set: a URL that is a
\* member stays a member for the rest of the run.
C30_SetsOnlyGrow ==
    [][cpc # "start" => (completed \subseteq completed' /\ failed \subseteq failed')]_vars

C30_Witness ==
    /\ cpc # "start"
    /\ "C" \in failed /\ "C" \in completed
    /\ \E w \in Workers : pc[w] = "loop" /\ url[w] = "C"

\* the values of the link fields of the payloads of this run
LinkValues(e) == UNION {{Links(e, u)[i] : i \in 1 .. Len(Links(e, u))} : u \in URLs}

\* C31: every URL a worker passes to add_new_urls or inserts into the
\* frontier starts with the root URL and is a value of one of the link
\* fields of a payload: a link of another host, an empty value and a value
\* of a field outside url_fields are never enqueued.
C31_OnlyRootedLinksEnqueued ==
    /\ \A w \in Workers : \A i \in 1 .. Len(queue[w]) :
          /\ StartsWithRoot(UrlText(queue[w][i]))
          /\ queue[w][i] \in LinkValues(env)
    /\ \A u \in Pending :
          /\ StartsWithRoot(UrlText(u))
          /\ u \notin {"X", "E"}
          /\ env = "Foreign" => u \in {"A", "B"}

C31_Witness ==
    \E w \in Workers :
        /\ env = "Foreign"
        /\ pc[w] = "mark_completed" /\ url[w] = "A" /\ new_count[w] = 1
        /\ Pending = {"B"}

\* the worker has left worker_thread
Exited(w) == pc[w] = "done"

\* C32: a worker leaves its loop only with the stop flag set: whenever a
\* worker has exited the stop flag is set, so "all workers done" holds only
\* in states where the flag is set.
C32_ExitedImpliesStop ==
    /\ (\E w \in Workers : Exited(w)) => stop_event
    /\ AllDone => stop_event

C32_Witness ==
    \E w, w2 \in Workers :
        /\ Exited(w) /\ stop_event /\ interrupted
        /\ Processing(w2)

(***************************************************************************)
(* The crawl with scheduling: every worker thread that can take a step     *)
(* eventually takes one (the threads are scheduled by the operating        *)
(* system, session.get has a timeout and the sleeps are finite).           *)
(***************************************************************************)
\* the steps of one worker thread
WorkerNext(w) ==
    \/ LoopCheck(w) \/ Pop(w) \/ IdleCheck(w) \/ IdleStop(w) \/ CheckCompleted(w) \/ Request(w)
    \/ MarkFailed(w) \/ Save(w) \/ AddSismember(w) \/ AddZscore(w) \/ AddScore(w)
    \/ AddZadd(w) \/ AddTime(w) \/ MarkCompleted(w)

\* the crawls checked under scheduling: a full crawl, a seed that fails, links
\* that lead upward and links to other hosts; an interrupt may arrive in each
LiveEnvs == {"E2E", "NotFound", "Upward", "Foreign"}

LiveInit == Constructed(LiveEnvs)

LiveSpec == LiveInit /\ [][Next]_vars /\ \A w \in Workers : WF_vars(WorkerNext(w))

\* C33: once the stop flag is set no worker starts a new iteration: a
\* worker at its loop test only exits, so the only pop a worker can still
\* make is that of the iteration whose test it had passed, after which it
\* finishes the iteration, comes back to the test and exits; with every
\* fetch terminating, all workers eventually exit.
C33_StopEndsWorkers ==
    /\ [][\A w \in Workers :
             /\ (stop_event /\ pc[w] # "pop") => pc'[w] # "pop"
             /\ (stop_event /\ pc[w] = "loop") => pc'[w] \in {"loop", "done"}
             /\ (pc[w] = "pop" /\ pc'[w] # "pop") => pc'[w] \in {"idle_check", "check_completed"}
             /\ Exited(w) => Exited(w)']_vars
    /\ stop_event ~> AllDone

C33_Witness ==
    \E w, w2 \in Workers :
        /\ stop_event /\ interrupted
        /\ Exited(w)
        /\ pc[w2] = "pop" /\ Pending # {}

\* C34: when the crawl has halted and scrape_url was called at most once
\* for every URL, urls_scraped is the number of URLs in the completed set.
C34_ScrapedEqualsCompleted ==
    (Halted /\ \A u \in URLs : fetched[u] <= 1)
    => urls_scraped = Cardinality(completed)

\* what print_statistics reports: the counters of self.stats and the
\* cardinalities of the three Redis collections
Reported ==
    [urls_scraped |-> urls_scraped,
     urls_failed |-> urls_failed,
     errors |-> Len(errors),
     completed_count |-> Cardinality(completed),
     failed_count |-> Cardinality(failed),
     pending_count |-> Cardinality(Pending)]

StatisticsPrinted == cpc = "done"

\* C35: whenever run has printed the final statistics every worker has
\* exited, and from then on no step changes a worker's position, the
\* counters of self.stats or the pending, completed and failed collections.
C35_StatisticsAfterWorkers ==
    /\ [](StatisticsPrinted => AllDone)
    /\ [][StatisticsPrinted =>
            /\ pc' = pc
            /\ stats' = stats
            /\ store' = store
            /\ Reported' = Reported]_vars

\* statistics were printed after a crawl that scraped, completed and failed URLs
C35_Witness ==
    /\ StatisticsPrinted
    /\ Reported.urls_scraped > 0
    /\ Reported.completed_count > 0
    /\ Reported.failed_count > 0

\* C36: the stop flag is monotonic: no step of the signal handler, of a
\* worker or of the coordinator takes stop_event from set to clear.
C36_StopMonotonic ==
    [][stop_event => stop_event']_vars

\* the flag was set by the signal handler while workers ran, and the run
\* went on through the coordinator's own set() to the final statistics
C36_Witness ==
    /\ stop_event
    /\ interrupted
    /\ cpc = "done"
    /\ completed # {}

=============================================================================
